---- MODULE Spec2Model ----
(***************************************************************************)
(* A model of the Result container of tony-div/result: the class Result    *)
(* (src/src/lib/result.ts), the factories Ok and Err and the Panic error.  *)
(*                                                                         *)
(* JavaScript values are named by their literals ("0", "''", "false", "5", *)
(* "'boom'", "null", "undefined"); containers live in a heap and are named *)
(* by their index in it, so that `return this` and `return Ok(..)` differ. *)
(***************************************************************************)
EXTENDS Integers, Sequences, FiniteSets, TLC

VARIABLES heap,    \* the containers constructed so far: #val, #err, #consumed
          origin,  \* history: the factory call that built each container, and
                   \* the slots the constructor left it with
          used,    \* history: a consuming method was called on the container
          last     \* the last call: receiver, arguments, outcome, callbacks run

vars == <<heap, origin, used, last>>

\* The number of containers a run constructs.
MaxObjs == 2

----------------------------------------------------------------------------
\* JavaScript values

Null == "null"
Undefined == "undefined"

\* The non-nullish values a caller wraps or a callback returns.
NonNullish == {"0", "''", "false", "true", "5", "'boom'"}

\* The values passed to Ok, to Err (undefined: Err() without a payload) and to
\* mapOr as the default.
OkPayloads == {"0", "5"}

ErrPayloads == {Undefined, "''", "'boom'"}

Defaults == {"0", "5"}

\* if(x): false for 0, "", false, null and undefined.
Truthy(v) == v \notin {"0", "''", "false", Null, Undefined}

\* x != null: false for null and undefined only.
NotNull(v) == v \notin {Null, Undefined}

\* The messages a caller passes to expect.
Messages == {"''", "'custom'"}

DefaultMsg == "'this is caused by calling an .unwrap() on an Err() value. delete that unwrap() and handle expected error with match()'"

ConsumedMsg == "'this is caused by consuming an already consumed Result'"

CallbackError == "'error thrown by the callback'"

\* Panic with `msg ?? default` in place of `msg || default`: an empty message is kept.
PanicMessage_Nullish(msg) == IF NotNull(msg) THEN msg ELSE DefaultMsg

\* new Panic(msg): super(msg || default).
PanicMessage(msg) == IF Truthy(msg) THEN msg ELSE DefaultMsg

----------------------------------------------------------------------------
\* Caller-supplied functions: one that returns false, one that returns true, one
\* that throws; an argument left out is NoFn.

NoFn == [kind |-> "none", ret |-> Undefined]

K(c) == [kind |-> "const", ret |-> c]

Thrower == [kind |-> "throw", ret |-> Undefined]

Callbacks == {K("false"), K("true"), Thrower}

OkArms == {NoFn, K("true"), Thrower}

ErrArms == {NoFn, K("false"), Thrower}

Throws(fn) == fn.kind = "throw"

Apply(fn, x) == IF fn.kind = "const" THEN fn.ret ELSE x

----------------------------------------------------------------------------
\* The outcome of a call: the heap after it, how it ended, what it returned
\* (ret: a value; ref: the container returned, 0 if none), the message of the
\* error raised, and the callbacks it invoked, in order.

Returned(h, v, calls) ==
    [heap |-> h, outcome |-> "return", ret |-> v, ref |-> 0, msg |-> Undefined, calls |-> calls]

ReturnedRef(h, r, calls) ==
    [heap |-> h, outcome |-> "return", ret |-> "Result", ref |-> r, msg |-> Undefined, calls |-> calls]

Panicked(h, msg) ==
    [heap |-> h, outcome |-> "panic", ret |-> Undefined, ref |-> 0, msg |-> PanicMessage(msg), calls |-> <<>>]

Thrown(h, calls) ==
    [heap |-> h, outcome |-> "throw", ret |-> Undefined, ref |-> 0, msg |-> CallbackError, calls |-> calls]

Invocation(fn, x) == [fn |-> fn, arg |-> x]

\* return fn(x): the callback's result, or its error.
ReturnCall(h, fn, x) ==
    IF Throws(fn) THEN Thrown(h, <<Invocation(fn, x)>>)
    ELSE Returned(h, Apply(fn, x), <<Invocation(fn, x)>>)

----------------------------------------------------------------------------
\* class Result

\* A constructor that assigns its parameters as they come: this.#val = val and
\* this.#err = err, undefined for an argument left out.
Construct_Assigns(val, err) == [val |-> val, err |-> err, consumed |-> FALSE]

\* protected constructor(val?, err?)
Construct(val, err) ==
    [val |-> IF Truthy(val) THEN val ELSE Null,
     err |-> IF Truthy(err) THEN err ELSE Null,
     consumed |-> FALSE]

\* #checkConsumed(): TRUE when it throws.
checkConsumed(o) == o.consumed

\* expect that throws new Panic() without passing msg on.
expect_NoMsg(h, r, msg) ==
    IF checkConsumed(h[r]) THEN Panicked(h, ConsumedMsg)
    ELSE LET h2 == [h EXCEPT ![r].consumed = TRUE]
         IN IF NotNull(h2[r].val) THEN Returned(h2, h2[r].val, <<>>)
            ELSE Panicked(h2, Undefined)

\* expect that sets this.#consumed only on the way to returning the value.
expect_MarkOnSuccess(h, r, msg) ==
    IF checkConsumed(h[r]) THEN Panicked(h, ConsumedMsg)
    ELSE IF NotNull(h[r].val)
         THEN Returned([h EXCEPT ![r].consumed = TRUE], h[r].val, <<>>)
         ELSE Panicked(h, msg)

\* expect(msg)
expect(h, r, msg) ==
    IF checkConsumed(h[r]) THEN Panicked(h, ConsumedMsg)
    ELSE LET h2 == [h EXCEPT ![r].consumed = TRUE]
         IN IF NotNull(h2[r].val) THEN Returned(h2, h2[r].val, <<>>)
            ELSE Panicked(h2, msg)

\* unwrap() that tests the value itself instead of calling expect(''), and
\* raises without setting this.#consumed.
unwrap_Peek(h, r) ==
    IF checkConsumed(h[r]) THEN Panicked(h, ConsumedMsg)
    ELSE IF NotNull(h[r].val)
         THEN Returned([h EXCEPT ![r].consumed = TRUE], h[r].val, <<>>)
         ELSE Panicked(h, "''")

\* unwrap()
unwrap(h, r) == expect(h, r, "''")

\* ok() that forgets this.#consumed = true.
ok_NoMark(h, r) ==
    IF checkConsumed(h[r]) THEN Panicked(h, ConsumedMsg)
    ELSE Returned(h, h[r].val, <<>>)

\* ok()
ok(h, r) ==
    IF checkConsumed(h[r]) THEN Panicked(h, ConsumedMsg)
    ELSE LET h2 == [h EXCEPT ![r].consumed = TRUE]
         IN Returned(h2, h2[r].val, <<>>)

\* err() that moves the error out of the container: this.#err = null.
err_TakesError(h, r) ==
    IF checkConsumed(h[r]) THEN Panicked(h, ConsumedMsg)
    ELSE LET h2 == [h EXCEPT ![r].consumed = TRUE, ![r].err = Null]
         IN Returned(h2, h[r].err, <<>>)

\* err()
err(h, r) ==
    IF checkConsumed(h[r]) THEN Panicked(h, ConsumedMsg)
    ELSE LET h2 == [h EXCEPT ![r].consumed = TRUE]
         IN Returned(h2, h2[r].err, <<>>)

Bool(b) == IF b THEN "true" ELSE "false"

\* isOk()
isOk(h, r) ==
    IF checkConsumed(h[r]) THEN Panicked(h, ConsumedMsg)
    ELSE Returned(h, Bool(h[r].err # Null), <<>>)

\* isErr()
isErr(h, r) ==
    IF checkConsumed(h[r]) THEN Panicked(h, ConsumedMsg)
    ELSE Returned(h, Bool(~NotNull(h[r].err)), <<>>)

\* isOkAnd(fn) that catches what fn throws and answers false.
isOkAnd_Catches(h, r, fn) ==
    IF checkConsumed(h[r]) THEN Panicked(h, ConsumedMsg)
    ELSE IF NotNull(h[r].val)
         THEN IF Throws(fn) THEN Returned(h, "false", <<Invocation(fn, h[r].val)>>)
              ELSE Returned(h, Apply(fn, h[r].val), <<Invocation(fn, h[r].val)>>)
    ELSE Returned(h, "false", <<>>)

\* isOkAnd(fn)
isOkAnd(h, r, fn) ==
    IF checkConsumed(h[r]) THEN Panicked(h, ConsumedMsg)
    ELSE IF NotNull(h[r].val) THEN ReturnCall(h, fn, h[r].val)
    ELSE Returned(h, "false", <<>>)

\* isErrAnd(fn) with the test of isErr(): this.#err == null.
isErrAnd_Inverted(h, r, fn) ==
    IF checkConsumed(h[r]) THEN Panicked(h, ConsumedMsg)
    ELSE IF ~NotNull(h[r].err) THEN ReturnCall(h, fn, h[r].err)
    ELSE Returned(h, "false", <<>>)

\* isErrAnd(fn)
isErrAnd(h, r, fn) ==
    IF checkConsumed(h[r]) THEN Panicked(h, ConsumedMsg)
    ELSE IF NotNull(h[r].err) THEN ReturnCall(h, fn, h[r].err)
    ELSE Returned(h, "false", <<>>)

\* match without the return in front of okArm(this.#val): it goes on to errArm.
match_NoReturn(h, r, okArm, errArm) ==
    IF okArm # NoFn /\ Truthy(h[r].val) /\ ~Throws(okArm) /\ errArm # NoFn
    THEN IF Throws(errArm)
         THEN Thrown(h, <<Invocation(okArm, h[r].val), Invocation(errArm, h[r].err)>>)
         ELSE Returned(h, Apply(errArm, h[r].err),
                       <<Invocation(okArm, h[r].val), Invocation(errArm, h[r].err)>>)
    ELSE IF okArm # NoFn /\ Truthy(h[r].val) THEN ReturnCall(h, okArm, h[r].val)
    ELSE IF errArm # NoFn THEN ReturnCall(h, errArm, h[r].err)
    ELSE Returned(h, Undefined, <<>>)

\* match(okArm?, errArm?)
match(h, r, okArm, errArm) ==
    IF okArm # NoFn /\ Truthy(h[r].val) THEN ReturnCall(h, okArm, h[r].val)
    ELSE IF errArm # NoFn THEN ReturnCall(h, errArm, h[r].err)
    ELSE Returned(h, Undefined, <<>>)

\* map(fn) without the call of #checkConsumed().
map_NoCheck(h, r, fn) ==
    IF NotNull(h[r].val)
    THEN IF Throws(fn) THEN Thrown(h, <<Invocation(fn, h[r].val)>>)
         ELSE ReturnedRef(Append(h, Construct(Apply(fn, h[r].val), Undefined)),
                          Len(h) + 1, <<Invocation(fn, h[r].val)>>)
    ELSE ReturnedRef(h, r, <<>>)

\* map(fn): Ok(fn(this.#val)) or this
map(h, r, fn) ==
    IF checkConsumed(h[r]) THEN Panicked(h, ConsumedMsg)
    ELSE IF NotNull(h[r].val)
         THEN IF Throws(fn) THEN Thrown(h, <<Invocation(fn, h[r].val)>>)
              ELSE ReturnedRef(Append(h, Construct(Apply(fn, h[r].val), Undefined)),
                               Len(h) + 1, <<Invocation(fn, h[r].val)>>)
         ELSE ReturnedRef(h, r, <<>>)

\* mapOr(defaultVal, fn)
mapOr(h, r, defaultVal, fn) ==
    IF checkConsumed(h[r]) THEN Panicked(h, ConsumedMsg)
    ELSE LET e == isErr(h, r)
         IN IF e.outcome # "return" THEN e
            ELSE IF e.ret = "true" THEN Returned(h, defaultVal, <<>>)
            ELSE ReturnCall(h, fn, h[r].val)

\* mapErr(fn) that returns a copy, Ok(this.#val), where the code returns this.
mapErr_AlwaysNew(h, r, fn) ==
    IF checkConsumed(h[r]) THEN Panicked(h, ConsumedMsg)
    ELSE IF NotNull(h[r].err)
         THEN IF Throws(fn) THEN Thrown(h, <<Invocation(fn, h[r].err)>>)
              ELSE ReturnedRef(Append(h, Construct(Undefined, Apply(fn, h[r].err))),
                               Len(h) + 1, <<Invocation(fn, h[r].err)>>)
         ELSE ReturnedRef(Append(h, Construct(h[r].val, Undefined)), Len(h) + 1, <<>>)

\* mapErr(fn): Err(fn(this.#err)) or this
mapErr(h, r, fn) ==
    IF checkConsumed(h[r]) THEN Panicked(h, ConsumedMsg)
    ELSE IF NotNull(h[r].err)
         THEN IF Throws(fn) THEN Thrown(h, <<Invocation(fn, h[r].err)>>)
              ELSE ReturnedRef(Append(h, Construct(Undefined, Apply(fn, h[r].err))),
                               Len(h) + 1, <<Invocation(fn, h[r].err)>>)
         ELSE ReturnedRef(h, r, <<>>)

\* inspect(fn) that sets this.#consumed, as the consuming methods do.
inspect_Consumes(h, r, fn) ==
    IF checkConsumed(h[r]) THEN Panicked(h, ConsumedMsg)
    ELSE LET h2 == [h EXCEPT ![r].consumed = TRUE]
         IN IF NotNull(h[r].val)
            THEN IF Throws(fn) THEN Thrown(h2, <<Invocation(fn, h[r].val)>>)
                 ELSE ReturnedRef(h2, r, <<Invocation(fn, h[r].val)>>)
            ELSE ReturnedRef(h2, r, <<>>)

\* inspect(fn)
inspect(h, r, fn) ==
    IF checkConsumed(h[r]) THEN Panicked(h, ConsumedMsg)
    ELSE IF NotNull(h[r].val)
         THEN IF Throws(fn) THEN Thrown(h, <<Invocation(fn, h[r].val)>>)
              ELSE ReturnedRef(h, r, <<Invocation(fn, h[r].val)>>)
         ELSE ReturnedRef(h, r, <<>>)

\* inspectErr(fn) that tests the success slot, as inspect does.
inspectErr_OnValue(h, r, fn) ==
    IF checkConsumed(h[r]) THEN Panicked(h, ConsumedMsg)
    ELSE IF NotNull(h[r].val)
         THEN IF Throws(fn) THEN Thrown(h, <<Invocation(fn, h[r].err)>>)
              ELSE ReturnedRef(h, r, <<Invocation(fn, h[r].err)>>)
         ELSE ReturnedRef(h, r, <<>>)

\* inspectErr(fn)
inspectErr(h, r, fn) ==
    IF checkConsumed(h[r]) THEN Panicked(h, ConsumedMsg)
    ELSE IF NotNull(h[r].err)
         THEN IF Throws(fn) THEN Thrown(h, <<Invocation(fn, h[r].err)>>)
              ELSE ReturnedRef(h, r, <<Invocation(fn, h[r].err)>>)
         ELSE ReturnedRef(h, r, <<>>)

----------------------------------------------------------------------------
\* The state machine: a caller constructs containers and calls their methods.

Objs == 1..Len(heap)

ConsumingOps == {"expect", "unwrap", "ok", "err"}

NoObj == [val |-> Null, err |-> Null, consumed |-> FALSE]

NoCall ==
    [op |-> "none", recv |-> 0, pre |-> NoObj, preUsed |-> FALSE, preLen |-> 0,
     fn |-> NoFn, fn2 |-> NoFn, arg |-> Undefined,
     outcome |-> "return", ret |-> Undefined, ref |-> 0, msg |-> Undefined, calls |-> <<>>]

Init ==
    /\ heap = <<>>
    /\ origin = <<>>
    /\ used = <<>>
    /\ last = NoCall

\* Ok(val) and Err(err): new OkFactory(val), new ErrFactory(err)
\* What is recorded of a container obj that the factory `by` built from arg.
Built(by, arg, obj) == [by |-> by, arg |-> arg, val |-> obj.val, err |-> obj.err]

Build(by, arg, obj) ==
    /\ Len(heap) < MaxObjs
    /\ heap' = Append(heap, obj)
    /\ origin' = Append(origin, Built(by, arg, obj))
    /\ used' = Append(used, FALSE)
    /\ last' = [NoCall EXCEPT !.op = by, !.arg = arg, !.preLen = Len(heap),
                              !.ret = "Result", !.ref = Len(heap) + 1]

Ok == \E v \in OkPayloads : Build("Ok", v, Construct(v, Undefined))

Err == \E e \in ErrPayloads : Build("Err", e, Construct(Undefined, e))

\* A method call on container r with outcome res; a container that map or mapErr
\* constructed is recorded as built by the factory the method called.
Call(op, r, fn, fn2, arg, res, by) ==
    /\ Len(res.heap) <= MaxObjs
    /\ heap' = res.heap
    /\ origin' = IF Len(res.heap) > Len(heap)
                 THEN Append(origin, Built(by, Apply(fn, res.calls[1].arg),
                                           res.heap[Len(res.heap)]))
                 ELSE origin
    /\ used' = LET u == IF op \in ConsumingOps THEN [used EXCEPT ![r] = TRUE] ELSE used
               IN IF Len(res.heap) > Len(heap) THEN Append(u, FALSE) ELSE u
    /\ last' = [op |-> op, recv |-> r, pre |-> heap[r], preUsed |-> used[r],
                preLen |-> Len(heap), fn |-> fn, fn2 |-> fn2, arg |-> arg,
                outcome |-> res.outcome, ret |-> res.ret, ref |-> res.ref,
                msg |-> res.msg, calls |-> res.calls]

Expect == \E r \in Objs, m \in Messages :
              Call("expect", r, NoFn, NoFn, m, expect(heap, r, m), "none")

Unwrap == \E r \in Objs : Call("unwrap", r, NoFn, NoFn, Undefined, unwrap(heap, r), "none")

OkOf == \E r \in Objs : Call("ok", r, NoFn, NoFn, Undefined, ok(heap, r), "none")

ErrOf == \E r \in Objs : Call("err", r, NoFn, NoFn, Undefined, err(heap, r), "none")

IsOk == \E r \in Objs : Call("isOk", r, NoFn, NoFn, Undefined, isOk(heap, r), "none")

IsErr == \E r \in Objs : Call("isErr", r, NoFn, NoFn, Undefined, isErr(heap, r), "none")

IsOkAnd == \E r \in Objs, fn \in Callbacks :
               Call("isOkAnd", r, fn, NoFn, Undefined, isOkAnd(heap, r, fn), "none")

IsErrAnd == \E r \in Objs, fn \in Callbacks :
                Call("isErrAnd", r, fn, NoFn, Undefined, isErrAnd(heap, r, fn), "none")

Match == \E r \in Objs, okArm \in OkArms, errArm \in ErrArms :
             Call("match", r, okArm, errArm, Undefined, match(heap, r, okArm, errArm), "none")

Map == \E r \in Objs, fn \in Callbacks :
           Call("map", r, fn, NoFn, Undefined, map(heap, r, fn), "Ok")

MapOr == \E r \in Objs, d \in Defaults, fn \in Callbacks :
             Call("mapOr", r, fn, NoFn, d, mapOr(heap, r, d, fn), "none")

MapErr == \E r \in Objs, fn \in Callbacks :
              Call("mapErr", r, fn, NoFn, Undefined, mapErr(heap, r, fn), "Err")

Inspect == \E r \in Objs, fn \in Callbacks :
               Call("inspect", r, fn, NoFn, Undefined, inspect(heap, r, fn), "none")

InspectErr == \E r \in Objs, fn \in Callbacks :
                  Call("inspectErr", r, fn, NoFn, Undefined, inspectErr(heap, r, fn), "none")

Next ==
    \/ Ok
    \/ Err
    \/ Expect
    \/ Unwrap
    \/ OkOf
    \/ ErrOf
    \/ IsOk
    \/ IsErr
    \/ IsOkAnd
    \/ IsErrAnd
    \/ Match
    \/ Map
    \/ MapOr
    \/ MapErr
    \/ Inspect
    \/ InspectErr

Spec == Init /\ [][Next]_vars

----------------------------------------------------------------------------
\* What a call was made on

\* The call is a method call on a container on which no consuming method
\* was called before.
FirstAccess(op) == last.op = op /\ ~last.preUsed

\* The receiver of the last call was built by Ok(v) / Err(e); v or e is BuiltArg.
BuiltBy(by) == origin[last.recv].by = by

BuiltArg == origin[last.recv].arg

GuardedOps ==
    {"isOk", "isErr", "isOkAnd", "isErrAnd", "map", "mapOr", "mapErr", "inspect", "inspectErr"}

\* The call left the heap as it was: no container constructed, the receiver unchanged.
HeapUntouched == Len(heap) = last.preLen /\ heap[last.recv] = last.pre

----------------------------------------------------------------------------
\* C1: for every non-nullish v (0, '' and false included) the first access
\* Ok(v).ok() returns v and Ok(v).err() returns null; for every non-nullish e,
\* Err(e).err() returns e and Err(e).ok() returns null.
C1_RoundTrip ==
    /\ FirstAccess("ok") /\ BuiltBy("Ok")
          => last.outcome = "return" /\ last.ret = BuiltArg
    /\ FirstAccess("err") /\ BuiltBy("Ok")
          => last.outcome = "return" /\ last.ret = Null
    /\ FirstAccess("err") /\ BuiltBy("Err") /\ BuiltArg \in NonNullish
          => last.outcome = "return" /\ last.ret = BuiltArg
    /\ FirstAccess("ok") /\ BuiltBy("Err") /\ BuiltArg \in NonNullish
          => last.outcome = "return" /\ last.ret = Null

\* C2: once expect, unwrap, ok or err has been called on a container, every
\* later call of expect, unwrap, ok or err on it raises Panic and returns nothing.
C2_SingleConsumption ==
    last.op \in ConsumingOps /\ last.preUsed
        => last.outcome = "panic" /\ last.ret = Undefined

\* err() on a container built by Ok, after a consuming call on it, has raised Panic.
C2_Witness ==
    /\ last.op = "err"
    /\ last.preUsed
    /\ BuiltBy("Ok")
    /\ last.outcome = "panic"

\* C3: match on a container that has already been consumed raises Panic and
\* invokes neither arm.
C3_MatchGuarded ==
    last.op = "match" /\ last.pre.consumed
        => last.outcome = "panic" /\ last.calls = <<>>

C5_VariantMembership ==
    /\ last.op = "isOk" /\ ~last.pre.consumed /\ BuiltBy("Ok")
          => last.outcome = "return" /\ last.ret = "true"
    /\ last.op = "isErr" /\ ~last.pre.consumed /\ BuiltBy("Ok")
          => last.outcome = "return" /\ last.ret = "false"
    /\ last.op = "isErr" /\ ~last.pre.consumed /\ BuiltBy("Err") /\ last.pre.err # Null
          => last.outcome = "return" /\ last.ret = "true"
    /\ last.op = "isOk" /\ ~last.pre.consumed /\ BuiltBy("Err") /\ last.pre.err # Null
          => last.outcome = "return" /\ last.ret = "false"

\* C6: mapOr(defaultVal, fn) on an unconsumed container returns fn(value),
\* invoking fn once with the value, when the success slot is populated, and
\* returns defaultVal without invoking fn when it is not.
C6_MapOr ==
    last.op = "mapOr" /\ ~last.pre.consumed /\ ~Throws(last.fn)
        => IF last.pre.val # Null
           THEN /\ last.outcome = "return"
                /\ last.ret = Apply(last.fn, last.pre.val)
                /\ last.calls = <<Invocation(last.fn, last.pre.val)>>
           ELSE /\ last.outcome = "return"
                /\ last.ret = last.arg
                /\ last.calls = <<>>

\* The call before this step was r.map(fn) / r.mapErr(fn) with r built by the
\* factory `by`, it returned a container, and this step calls op on that container.
Chained(by, mapper, op) ==
    /\ last.op = mapper
    /\ last.outcome = "return"
    /\ ~last.preUsed
    /\ origin[last.recv].by = by
    /\ last'.op = op
    /\ last'.recv = last.ref

\* C7: for every v and every f returning a non-nullish value, Ok(v).map(f).ok()
\* and Ok(v).map(f).unwrap() are f(v); Err(e).map(f) does not invoke f and
\* Err(e).map(f).err() is e.
C7_Map ==
    [][/\ Chained("Ok", "map", "ok") \/ Chained("Ok", "map", "unwrap")
          => /\ last'.outcome = "return"
             /\ last'.ret = Apply(last.fn, origin[last.recv].arg)
       /\ last'.op = "map" /\ ~last'.preUsed /\ origin'[last'.recv].by = "Err"
          => last'.calls = <<>>
       /\ Chained("Err", "map", "err") /\ origin[last.recv].arg \in NonNullish
          => /\ last'.outcome = "return"
             /\ last'.ret = origin[last.recv].arg]_vars

\* C8: for every e and every f returning a non-nullish value,
\* Err(e).mapErr(f).err() is f(e); Ok(v).mapErr(f) never invokes f and
\* Ok(v).mapErr(f).unwrap() is v.
C8_MapErr ==
    [][/\ Chained("Err", "mapErr", "err") /\ origin[last.recv].arg \in NonNullish
          => /\ last'.outcome = "return"
             /\ last'.ret = Apply(last.fn, origin[last.recv].arg)
       /\ last'.op = "mapErr" /\ ~last'.preUsed /\ origin'[last'.recv].by = "Ok"
          => last'.calls = <<>>
       /\ Chained("Ok", "mapErr", "unwrap")
          => /\ last'.outcome = "return"
             /\ last'.ret = origin[last.recv].arg]_vars

\* C9: unwrap() on an unconsumed container returns the contained value when the
\* success slot is populated (for a container built by Ok(v), v itself) and
\* otherwise raises Panic with the default message, also on the container Err()
\* builds without a payload.
C9_Unwrap ==
    last.op = "unwrap" /\ ~last.pre.consumed
        => IF last.pre.val # Null
           THEN /\ last.outcome = "return"
                /\ last.ret = last.pre.val
                /\ BuiltBy("Ok") => last.ret = BuiltArg
           ELSE /\ last.outcome = "panic"
                /\ last.msg = DefaultMsg

\* unwrap() on the container built by Err() has raised Panic with the default message.
C9_Witness ==
    /\ last.op = "unwrap"
    /\ ~last.pre.consumed
    /\ BuiltBy("Err")
    /\ BuiltArg = Undefined
    /\ last.outcome = "panic"
    /\ last.msg = DefaultMsg

\* C10 as stated: expect(msg) on an unconsumed container whose success slot is
\* not populated raises Panic whose message is exactly msg, for every string msg,
\* the empty string included; with the slot populated it returns the value.
C10_ExpectMessage ==
    last.op = "expect" /\ ~last.pre.consumed
        => IF last.pre.val # Null
           THEN last.outcome = "return" /\ last.ret = last.pre.val
           ELSE last.outcome = "panic" /\ last.msg = last.arg

\* C10 as amended: the message is exactly msg for every non-empty msg, and the
\* default message for the empty string; with the slot populated expect returns
\* the value and raises nothing.
C10_ExpectMessageAmended ==
    last.op = "expect" /\ ~last.pre.consumed
        => IF last.pre.val # Null
           THEN last.outcome = "return" /\ last.ret = last.pre.val
           ELSE /\ last.outcome = "panic"
                /\ last.msg = IF last.arg = "''" THEN DefaultMsg ELSE last.arg

\* expect('') on an unconsumed container without a value has raised Panic with
\* the default message.
C10_Witness ==
    /\ last.op = "expect"
    /\ ~last.pre.consumed
    /\ last.pre.val = Null
    /\ last.arg = "''"
    /\ last.outcome = "panic"
    /\ last.msg = DefaultMsg

\* The call invoked fn once, with x, when the slot holds x, and not at all when
\* the slot is empty.
InvokedIffPopulated(fn, x) ==
    last.calls = IF x # Null THEN <<Invocation(fn, x)>> ELSE <<>>

\* C11: inspect(fn) and inspectErr(fn) on an unconsumed container invoke fn
\* exactly once if and only if the matching slot is populated, and (fn returning)
\* return the receiver itself, its value, error and consumed flag unchanged.
C11_Inspect ==
    /\ last.op = "inspect" /\ ~last.pre.consumed
          => /\ InvokedIffPopulated(last.fn, last.pre.val)
             /\ HeapUntouched
             /\ ~(last.pre.val # Null /\ Throws(last.fn))
                   => last.outcome = "return" /\ last.ref = last.recv
    /\ last.op = "inspectErr" /\ ~last.pre.consumed
          => /\ InvokedIffPopulated(last.fn, last.pre.err)
             /\ HeapUntouched
             /\ ~(last.pre.err # Null /\ Throws(last.fn))
                   => last.outcome = "return" /\ last.ref = last.recv

\* inspectErr(fn) on an unconsumed container holding a value has returned the
\* receiver, still unconsumed, without invoking fn.
C11_Witness ==
    /\ last.op = "inspectErr"
    /\ ~last.pre.consumed
    /\ last.pre.val # Null
    /\ last.calls = <<>>
    /\ last.ref = last.recv
    /\ ~heap[last.recv].consumed

\* C12: match on an unconsumed container: with the success slot populated and
\* okArm supplied, only okArm is invoked, with the value, and its result is
\* returned; otherwise, with errArm supplied, only errArm is invoked, with the
\* content of the error slot (null if it is empty), and its result is returned;
\* otherwise nothing is invoked and undefined is returned.
C12_MatchArms ==
    last.op = "match" /\ ~last.pre.consumed
        => /\ Len(last.calls) <= 1
           /\ IF last.pre.val # Null /\ last.fn # NoFn
              THEN /\ last.calls = <<Invocation(last.fn, last.pre.val)>>
                   /\ ~Throws(last.fn)
                         => /\ last.outcome = "return"
                            /\ last.ret = Apply(last.fn, last.pre.val)
              ELSE IF last.fn2 # NoFn
              THEN /\ last.calls = <<Invocation(last.fn2, last.pre.err)>>
                   /\ ~Throws(last.fn2)
                         => /\ last.outcome = "return"
                            /\ last.ret = Apply(last.fn2, last.pre.err)
              ELSE /\ last.calls = <<>>
                   /\ last.outcome = "return"
                   /\ last.ret = Undefined

\* match without okArm on a container holding a value has invoked errArm with null.
C12_Witness ==
    /\ last.op = "match"
    /\ ~last.pre.consumed
    /\ last.pre.val # Null
    /\ last.fn = NoFn
    /\ last.calls = <<Invocation(K("false"), Null)>>
    /\ last.ret = "false"

\* C13: isOkAnd(fn) on an unconsumed container returns fn(value) if the success
\* slot is populated and false without invoking fn otherwise; isErrAnd(fn)
\* likewise on the error slot.
C13_IsAnd ==
    /\ last.op = "isOkAnd" /\ ~last.pre.consumed
          => /\ InvokedIffPopulated(last.fn, last.pre.val)
             /\ last.pre.val = Null => last.outcome = "return" /\ last.ret = "false"
             /\ last.pre.val # Null /\ ~Throws(last.fn)
                   => /\ last.outcome = "return"
                      /\ last.ret = Apply(last.fn, last.pre.val)
    /\ last.op = "isErrAnd" /\ ~last.pre.consumed
          => /\ InvokedIffPopulated(last.fn, last.pre.err)
             /\ last.pre.err = Null => last.outcome = "return" /\ last.ret = "false"
             /\ last.pre.err # Null /\ ~Throws(last.fn)
                   => /\ last.outcome = "return"
                      /\ last.ret = Apply(last.fn, last.pre.err)

\* isErrAnd(fn) with fn returning true, on a container holding an error, has
\* returned true.
C13_Witness ==
    /\ last.op = "isErrAnd"
    /\ ~last.pre.consumed
    /\ last.pre.err # Null
    /\ last.fn = K("true")
    /\ last.ret = "true"

\* At most one slot of every container is populated, and the container Err()
\* builds without a payload has neither.
AtMostOneSlot ==
    \A i \in Objs :
        /\ heap[i].val = Null \/ heap[i].err = Null
        /\ origin[i].by = "Err" /\ origin[i].arg = Undefined
              => heap[i].val = Null /\ heap[i].err = Null

\* Both slots of every container hold what the constructor left in them.
SlotsKept ==
    \A i \in Objs : heap[i].val = origin[i].val /\ heap[i].err = origin[i].err

\* C14: in every reachable state at most one of the value and error slots of a
\* container is populated (neither for Err() without a payload), and no
\* operation, returning or raising, changes either slot after construction.
C14_VariantImmutable == AtMostOneSlot /\ SlotsKept

\* err() has returned the error of a container, which still holds it and no value.
C14_Witness ==
    /\ last.op = "err"
    /\ last.outcome = "return"
    /\ last.ret # Null
    /\ heap[last.recv].err = last.ret
    /\ heap[last.recv].val = Null
    /\ heap[last.recv].consumed

\* C15: the consumed flag is false on every new container, true from the first
\* call of expect, unwrap, ok or err on, and never goes back to false: it is
\* true exactly on the containers a consuming method was ever called on.
C15_ConsumedMonotonic ==
    /\ \A i \in Objs : heap[i].consumed = used[i]
    /\ last.op \in {"Ok", "Err"} => ~heap[last.ref].consumed
    /\ last.op \in {"map", "mapErr"} /\ last.ref > last.preLen => ~heap[last.ref].consumed
    /\ last.op \in ConsumingOps => heap[last.recv].consumed
    /\ last.recv # 0 /\ last.pre.consumed => heap[last.recv].consumed

\* A first expect on a container without a value has raised Panic and left the
\* container consumed.
C15_Witness ==
    /\ last.op = "expect"
    /\ ~last.pre.consumed
    /\ last.outcome = "panic"
    /\ heap[last.recv].consumed

NonConsumingOps == GuardedOps \cup {"match"}

\* C16: non-consuming calls leave an unconsumed container unconsumed: a
\* container on which only match, isOk, isErr, isOkAnd, isErrAnd, map, mapOr,
\* mapErr, inspect and inspectErr were called is not consumed, and the first
\* consuming call on it does not raise the Panic of a consumed container.
C16_NonConsumingKeepFresh ==
    /\ last.op \in NonConsumingOps /\ ~last.pre.consumed => ~heap[last.recv].consumed
    /\ \A i \in Objs : ~used[i] => ~heap[i].consumed
    /\ last.op \in ConsumingOps /\ ~last.preUsed => last.msg # ConsumedMsg

\* mapOr has invoked its callback on an unconsumed container, which is still
\* unconsumed.
C16_Witness ==
    /\ last.op = "mapOr"
    /\ ~last.pre.consumed
    /\ last.calls # <<>>
    /\ last.outcome = "return"
    /\ ~heap[last.recv].consumed

\* C17: a first expect(msg) or unwrap() on a container whose success slot is not
\* populated sets the consumed flag before it raises Panic, and ok() or err() on
\* a consumed container raises the Panic of a consumed container and returns
\* nothing.
C17_FailedUnwrapConsumes ==
    /\ last.op \in {"expect", "unwrap"} /\ ~last.pre.consumed /\ last.pre.val = Null
          => /\ last.outcome = "panic"
             /\ last.msg = PanicMessage(IF last.op = "unwrap" THEN "''" ELSE last.arg)
             /\ heap[last.recv].consumed
    /\ last.op \in {"ok", "err"} /\ last.pre.consumed
          => /\ last.outcome = "panic"
             /\ last.msg = ConsumedMsg
             /\ last.ret = Undefined

\* A first unwrap() on a container holding an error has raised Panic and left
\* the container consumed.
C17_Witness ==
    /\ last.op = "unwrap"
    /\ ~last.pre.consumed
    /\ last.pre.err # Null
    /\ last.outcome = "panic"
    /\ heap[last.recv].consumed

\* The call returned a container it constructed, unconsumed, and left the
\* receiver as it was.
ReturnedFresh ==
    /\ last.ref = last.preLen + 1
    /\ last.ref # last.recv
    /\ Len(heap) = last.preLen + 1
    /\ ~heap[last.ref].consumed
    /\ heap[last.recv] = last.pre

\* The call returned the receiver and constructed nothing.
ReturnedThis == last.ref = last.recv /\ Len(heap) = last.preLen

CallbackThrew == last.calls # <<>> /\ Throws(last.calls[Len(last.calls)].fn)

CallbackOps ==
    {"match", "map", "mapOr", "mapErr", "inspect", "inspectErr", "isOkAnd", "isErrAnd"}

\* C19: if the function given to match, map, mapOr, mapErr, inspect,
\* inspectErr, isOkAnd or isErrAnd throws, that error reaches the caller, not a
\* Panic, and the receiver's value, error and consumed flag are as before.
C19_CallbackErrorPropagates ==
    /\ CallbackThrew
          => /\ last.outcome = "throw"
             /\ last.msg = CallbackError
             /\ HeapUntouched
    /\ last.outcome = "throw" => CallbackThrew /\ last.op \in CallbackOps

\* The function given to mapOr has thrown on an unconsumed container, which is
\* unchanged.
C19_Witness ==
    /\ last.op = "mapOr"
    /\ last.outcome = "throw"
    /\ heap[last.recv] = last.pre
    /\ ~heap[last.recv].consumed

\* C20: on every unconsumed container of every reachable state, the container
\* of Err() included, exactly one of isOk() and isErr() returns true, neither
\* changes anything, and the answer a call gave is the answer of a call repeated.
C20_Complementary ==
    /\ \A i \in Objs :
          ~heap[i].consumed
              => LET a == isOk(heap, i)
                     b == isErr(heap, i)
                 IN /\ a.outcome = "return" /\ b.outcome = "return"
                    /\ (a.ret = "true") # (b.ret = "true")
                    /\ a.heap = heap /\ b.heap = heap
    /\ last.op = "isOk" /\ ~last.pre.consumed
          => HeapUntouched /\ isOk(heap, last.recv).ret = last.ret
    /\ last.op = "isErr" /\ ~last.pre.consumed
          => HeapUntouched /\ isErr(heap, last.recv).ret = last.ret

\* isErr() on the container of Err() has returned true, and isOk() on it
\* returns false.
C20_Witness ==
    /\ last.op = "isErr"
    /\ BuiltBy("Err")
    /\ BuiltArg = Undefined
    /\ last.ret = "true"
    /\ isOk(heap, last.recv).ret = "false"

====
